---------------------------- MODULE Spec2Model ----------------------------
(***************************************************************************)
(* Model of the product categoriser: the work queue (product_queue), the   *)
(* suggestion ledger (collection_suggestions), the category hierarchy      *)
(* (collection_hierarchy), the classifier (ai_classifier.py), the          *)
(* reconciler (shopify_client.py) and the handlers that drive them         *)
(* (app.py, scheduler.py).                                                 *)
(*                                                                         *)
(* Python None is modelled by the empty string for text columns and for    *)
(* product ids (the code only ever tests them for truthiness).             *)
(***************************************************************************)
EXTENDS Integers, Sequences, FiniteSets, TLC

VARIABLES
    queue,        \* product_queue rows, in insertion order
    suggestions,  \* collection_suggestions rows, keyed by suggested_name
    hierarchy,    \* collection_hierarchy rows
    memberships,  \* the catalog's collects: product id -> set of collection ids
    drain,        \* one process_queue invocation per trigger
    scan,         \* one fetch_products_for_scanning invocation per trigger
    sync,         \* position of fetch_all_collections
    obs,          \* observations of what the handlers did (history)
    cl,           \* one classify_product call, taken on its own
    lg,           \* calls of _process_collection_suggestion, taken on their own
    rc,           \* one update_product_collections call, taken on its own
    apply         \* position of the apply_assignments handler

vars == <<queue, suggestions, hierarchy, memberships, drain, scan, sync, obs,
          cl, lg, rc, apply>>

-----------------------------------------------------------------------------
(* Helpers *)

Range(s) == {s[i] : i \in 1..Len(s)}

Min(a, b) == IF a < b THEN a ELSE b

Max(a, b) == IF a > b THEN a ELSE b

RECURSIVE SeqsUpTo(_, _)
SeqsUpTo(S, n) ==
    IF n = 0 THEN {<<>>}
    ELSE LET shorter == SeqsUpTo(S, n - 1)
         IN  shorter \cup {Append(s, x) : s \in {t \in shorter : Len(t) = n - 1}, x \in S}

-----------------------------------------------------------------------------
(* Suggestion ledger: models.py CollectionSuggestion and                   *)
(* AIClassifier._process_collection_suggestion                             *)

Names == {"Vintage Lamps", "Garden"}

Products == {"p1", "p2", "p3"}

NoSuggestionRow ==
    [exists |-> FALSE, parent_collection |-> "", product_ids |-> <<>>, product_count |-> 0]

\* CollectionSuggestion(suggested_name=..., parent_collection=...,
\*                      product_ids=[product_id] if product_id else [],
\*                      product_count=1 if product_id else 0)
CollectionSuggestion(parent_collection, product_id) ==
    [exists |-> TRUE,
     parent_collection |-> parent_collection,
     product_ids |-> IF product_id # "" THEN <<product_id>> ELSE <<>>,
     product_count |-> IF product_id # "" THEN 1 ELSE 0]

\* The unit of work writes a column only when the value assigned to the
\* attribute differs (==) from the value the attribute held when it was first
\* set.  product_ids is a plain JSON column (models.py:31), so
\*     product_ids = existing.product_ids or []
\*     product_ids.append(x); existing.product_ids = product_ids
\* assigns the loaded list object to itself when the loaded list is non-empty:
\* old and new value are the same object and no UPDATE of product_ids is
\* emitted.  When the loaded list is empty (or None), `or []` yields a new list
\* and the assignment is a change.
JsonListWritten(loaded) == loaded = <<>>

\* the body of `if product_id not in product_ids:` (ai_classifier.py:161-163,
\* 231-233) on the loaded row: the columns the next commit of the session writes
AppendProductId(row, product_id) ==
    LET product_ids == Append(row.product_ids, product_id)
    IN  [product_ids_written |-> JsonListWritten(row.product_ids),
         product_ids |-> product_ids,
         product_count |-> Len(product_ids)]

\* the UPDATE of a suggestion row at commit
StoreSuggestion(row, write) ==
    [row EXCEPT !.product_ids = IF write.product_ids_written THEN write.product_ids ELSE @,
                !.product_count = write.product_count]

\* variant of MergeGuard: the guard without the membership test
MergeGuardAnyId(row, product_id) == product_id # ""

\* `product_id and product_id not in product_ids` (ai_classifier.py:160)
MergeGuard(row, product_id) ==
    product_id # "" /\ product_id \notin Range(row.product_ids)

\* _process_collection_suggestion(suggestion, product_id) on the table `tbl`,
\* when its commit succeeds (query, change and commit are one transaction)
process_collection_suggestion(tbl, suggested_name, parent_collection, product_id) ==
    LET existing == tbl[suggested_name]
    IN  IF existing.exists
        THEN IF MergeGuard(existing, product_id)
             THEN [tbl EXCEPT ![suggested_name] =
                       StoreSuggestion(existing, AppendProductId(existing, product_id))]
             ELSE tbl
        ELSE [tbl EXCEPT ![suggested_name] = CollectionSuggestion(parent_collection, product_id)]

-----------------------------------------------------------------------------
(* Category hierarchy rows and the external model's answers *)

Collections == {"A", "B", "C", "D"}

\* A title is a sequence of characters; a symbol other than " " and ">" stands
\* for a run of characters that are neither.

\* self.sep: COLLECTION_PATH_SEPARATOR, by default ' > '
sep == <<" ", ">", " ">>

\* str.strip()
strip(s) ==
    LET inked == {i \in 1..Len(s) : s[i] # " "}
    IN  IF inked = {} THEN <<>>
        ELSE SubSeq(s, CHOOSE i \in inked : \A j \in inked : i <= j,
                       CHOOSE i \in inked : \A j \in inked : i >= j)

\* the positions at which sep occurs in s
Occurrences(s) == {i \in 1..(Len(s) - Len(sep) + 1) : SubSeq(s, i, i + Len(sep) - 1) = sep}

\* title.split(self.sep): left to right, the occurrences not overlapping
RECURSIVE split(_)
split(s) ==
    IF Occurrences(s) = {} THEN <<s>>
    ELSE LET i == CHOOSE i \in Occurrences(s) : \A j \in Occurrences(s) : i <= j
         IN  <<SubSeq(s, 1, i - 1)>> \o split(SubSeq(s, i + Len(sep), Len(s)))

\* self.sep.join(parts)
RECURSIVE join(_)
join(parts) ==
    IF parts = <<>> THEN <<>>
    ELSE IF Len(parts) = 1 THEN parts[1]
    ELSE parts[1] \o sep \o join(Tail(parts))

\* lines 109-112: the stripped parts of a stripped title
parts(title) ==
    IF Occurrences(title) # {}
    THEN LET raw == split(title) IN [i \in 1..Len(raw) |-> strip(raw[i])]
    ELSE IF title # <<>> THEN <<title>> ELSE <<>>

\* variant of level_of: the depth not capped
level_of_uncapped(ps) == IF ps # <<>> THEN Len(ps) ELSE 1

\* level = min(len(parts), 3) if parts else 1
level_of(ps) == IF ps # <<>> THEN Min(Len(ps), 3) ELSE 1

\* full_path = self.sep.join(parts[:level]) if parts else title
full_path_of(ps, title) == IF ps # <<>> THEN join(SubSeq(ps, 1, level_of(ps))) ELSE title

\* the CollectionHierarchy row built for a fetched collection c
CollectionHierarchy(c) ==
    LET title == strip(c.title)
    IN  [collection_id |-> c.id,
         title |-> title,
         level |-> level_of(parts(title)),
         full_path |-> full_path_of(parts(title), title)]

Collection(id, title) == [id |-> id, title |-> title]

\* the storefront's custom and smart collections
StorefrontCollections ==
    <<Collection("A", <<"Men", " ", ">", " ", "Shoes", " ", ">", " ", "Running">>),
      Collection("D", <<"Men", " ", ">", " ", "Shoes">>),
      Collection("C", <<"Men">>)>>

\* the rows a sync of the storefront stores: A at level 3, D at 2, C at 1
HierarchyRows == {CollectionHierarchy(StorefrontCollections[i]) : i \in 1..3}

NoSuggestion == [present |-> FALSE, suggested_name |-> "", parent_collection |-> ""]

Suggest(name) == [present |-> TRUE, suggested_name |-> name, parent_collection |-> "Home"]

Assigned(id, confidence) == [id |-> id, confidence |-> confidence]

\* what one request to chat.completions.create can produce: a JSON object, a
\* body that json.loads rejects, openai.RateLimitError, openai.APITimeoutError,
\* or any other exception of the client
Signal(kind) ==
    [kind |-> kind, assigned_collections |-> <<>>, new_collection_suggestion |-> NoSuggestion]

Answer(assigned, suggestion) ==
    [kind |-> "ok", assigned_collections |-> assigned, new_collection_suggestion |-> suggestion]

RateLimitError == Signal("RateLimitError")

APITimeoutError == Signal("APITimeoutError")

JSONDecodeError == Signal("JSONDecodeError")

APIError == Signal("APIError")

\* confidences are in percent: 0.8 is 80
Answers ==
    {Answer(<<Assigned("A", 90), Assigned("D", 80)>>, Suggest("Vintage Lamps")),
     Answer(<<Assigned("A", 95), Assigned("D", 85), Assigned("C", 60)>>, Suggest(""))}

-----------------------------------------------------------------------------
(* AIClassifier.classify_product *)

max_retries == 3

\* variant of CandidateLevel: the shallowest populated level preferred
CandidateLevelShallowest(hier) ==
    IF \E c \in hier : c.level = 1 THEN 1
    ELSE IF \E c \in hier : c.level = 2 THEN 2
    ELSE IF \E c \in hier : c.level = 3 THEN 3
    ELSE 0

\* the three filter_by(level=..) queries with their fallbacks
CandidateLevel(hier) ==
    IF \E c \in hier : c.level = 3 THEN 3
    ELSE IF \E c \in hier : c.level = 2 THEN 2
    ELSE IF \E c \in hier : c.level = 1 THEN 1
    ELSE 0

l3_collections(hier) == {c \in hier : c.level = CandidateLevel(hier)}

\* the ids of collection_list, the candidates written into the prompt
collection_list(hier) == {c.collection_id : c \in l3_collections(hier)}

\* the dict of the outer `except Exception as e`
ErrorResult(text) ==
    [assigned_collections |-> <<>>, new_collection_suggestion |-> NoSuggestion, error |-> text]

\* variant of MalformedResult: the parse error reported to the caller
MalformedResultWithError == ErrorResult("JSON decode error")

\* the dict of `except json.JSONDecodeError` (no 'error' key)
MalformedResult ==
    [assigned_collections |-> <<>>, new_collection_suggestion |-> NoSuggestion, error |-> ""]

\* the answer of the request, or a timeout when the model does not answer
NextResponse(responses) ==
    IF responses = <<>> THEN APITimeoutError ELSE Head(responses)

\* the answers left for the retries
Rest(responses) == IF responses = <<>> THEN <<>> ELSE Tail(responses)

\* variant of MayRetry: one retry more
MayRetryInclusive(retry_count) == retry_count <= max_retries

MayRetry(retry_count) == retry_count < max_retries

\* classify_product(product_title, product_description, retry_count) against the
\* hierarchy `hier`, the model answering the successive requests with `responses`.
\* result: the returned dict ('error' is "" when the key is absent);
\* requests: calls of chat.completions.create made by this call and its retries;
\* merge: the suggestion handed to _process_collection_suggestion(.., product_id=None);
\* candidates: collection_list as built for the request(s), {} when none is
\* made (the prompt prints its first 50 entries, line 56)
RECURSIVE classify_product(_, _, _)
classify_product(hier, responses, retry_count) ==
    IF l3_collections(hier) = {}
    THEN [result |-> ErrorResult("No collections found in hierarchy"),
          requests |-> 0, merge |-> NoSuggestion, candidates |-> {}]
    ELSE LET r == NextResponse(responses)
             retry == classify_product(hier, Rest(responses), retry_count + 1)
         IN  CASE r.kind = "ok" ->
                    [result |-> [assigned_collections |-> r.assigned_collections,
                                 new_collection_suggestion |-> r.new_collection_suggestion,
                                 error |-> ""],
                     requests |-> 1,
                     merge |-> IF r.new_collection_suggestion.present
                                  /\ r.new_collection_suggestion.suggested_name # ""
                               THEN r.new_collection_suggestion ELSE NoSuggestion,
                     candidates |-> collection_list(hier)]
               [] r.kind = "RateLimitError" ->
                    IF MayRetry(retry_count)
                    THEN [retry EXCEPT !.requests = @ + 1]
                    ELSE [result |-> ErrorResult("OpenAI rate limit exceeded after retries"),
                          requests |-> 1, merge |-> NoSuggestion,
                          candidates |-> collection_list(hier)]
               [] r.kind = "APITimeoutError" ->
                    IF MayRetry(retry_count)
                    THEN [retry EXCEPT !.requests = @ + 1]
                    ELSE [result |-> ErrorResult("OpenAI API timeout after retries"),
                          requests |-> 1, merge |-> NoSuggestion,
                          candidates |-> collection_list(hier)]
               [] r.kind = "JSONDecodeError" ->
                    [result |-> MalformedResult, requests |-> 1, merge |-> NoSuggestion,
                     candidates |-> collection_list(hier)]
               [] OTHER ->
                    [result |-> ErrorResult("API error"),
                     requests |-> 1, merge |-> NoSuggestion,
                     candidates |-> collection_list(hier)]

-----------------------------------------------------------------------------
(* ShopifyClient.update_product_collections *)

\* `level_map and level_map.get(cid) == 3`; a level_map of None or {} is the
\* function with the empty domain
IsLevel3(level_map, cid) == cid \in DOMAIN level_map /\ level_map[cid] = 3

L3Count(level_map, ids) == Cardinality({cid \in ids : IsLevel3(level_map, cid)})

\* to_add = [cid for cid in target_collection_ids if cid not in current_ids]
to_add(target_collection_ids, current_ids) ==
    SelectSeq(target_collection_ids, LAMBDA cid : cid \notin current_ids)

\* variant of UnderCap: the cap compared with <=
UnderCapInclusive(l3_current, max_l3) == l3_current <= max_l3

UnderCap(l3_current, max_l3) == l3_current < max_l3

\* the loop that fills allowed_add, l3_current being the running count
RECURSIVE allowed_add(_, _, _, _)
allowed_add(adding, level_map, max_l3, l3_current) ==
    IF adding = <<>> THEN <<>>
    ELSE LET cid == Head(adding)
         IN  IF IsLevel3(level_map, cid)
             THEN IF UnderCap(l3_current, max_l3)
                  THEN <<cid>> \o allowed_add(Tail(adding), level_map, max_l3, l3_current + 1)
                  ELSE allowed_add(Tail(adding), level_map, max_l3, l3_current)
             ELSE <<cid>> \o allowed_add(Tail(adding), level_map, max_l3, l3_current)

\* allowed_add of a call, from the memberships the call fetched
AllowedAdd(target_collection_ids, current_ids, level_map, max_l3) ==
    allowed_add(to_add(target_collection_ids, current_ids), level_map, max_l3,
                L3Count(level_map, current_ids))

\* variant of keep: one target fewer is protected
keepOneLess(target_collection_ids, max_l3) ==
    Range(SubSeq(target_collection_ids, 1, Min(max_l3 - 1, Len(target_collection_ids))))

\* keep = set(target_collection_ids[:max_l3])
keep(target_collection_ids, max_l3) ==
    Range(SubSeq(target_collection_ids, 1, Min(max_l3, Len(target_collection_ids))))

\* the length of remove_ids:
\* [cid for cid in l3_ids if cid not in keep][: max(0, len(l3_ids) - max_l3)]
RemoveCount(l3_ids, kept, max_l3) ==
    Min(Cardinality(l3_ids \ kept), Max(0, Cardinality(l3_ids) - max_l3))

\* the sets remove_ids can be: l3_ids is built by iterating a set of strings,
\* whose order is not fixed, so any RemoveCount of the candidates can come first
RemoveChoices(current_ids, target_collection_ids, level_map, max_l3) ==
    LET l3_ids == {cid \in current_ids : IsLevel3(level_map, cid)}
        kept == keep(target_collection_ids, max_l3)
    IN  IF Cardinality(l3_ids) > max_l3
        THEN {R \in SUBSET (l3_ids \ kept) : Cardinality(R) = RemoveCount(l3_ids, kept, max_l3)}
        ELSE {{}}

-----------------------------------------------------------------------------
(* The work queue: models.py ProductQueue *)

\* the storefront's products and their titles (p.title or '')
ProductTitle == [p \in Products |-> IF p = "p1" THEN "" ELSE IF p = "p2" THEN "Lamp" ELSE "Desk"]

\* (p.body_html or '')[:10000] of the product at the time of the scan
Description(product_id) == "About " \o product_id

\* variant of ProductQueue: the row built without its status argument
ProductQueueNoStatus(product_id, title) ==
    [product_id |-> product_id, title |-> title, description |-> Description(product_id),
     status |-> "", retry_count |-> 0, error_message |-> "", assigned_collections |-> <<>>,
     processed |-> FALSE, applied |-> FALSE]

\* ProductQueue(product_id=pid, title=.., description=.., status='pending')
\* with the column defaults
ProductQueue(product_id, title) ==
    [product_id |-> product_id, title |-> title, description |-> Description(product_id),
     status |-> "pending", retry_count |-> 0, error_message |-> "",
     assigned_collections |-> <<>>, processed |-> FALSE, applied |-> FALSE]

QueuedIds(q) == {q[i].product_id : i \in 1..Len(q)}

\* variant of UniqueViolation: the column without the unique constraint
UniqueViolationNever(q, product_id) == FALSE

\* unique=True on product_queue.product_id: inserting pid into q is refused
UniqueViolation(q, product_id) == product_id \in QueuedIds(q)

-----------------------------------------------------------------------------
(* ShopifyClient.fetch_products_for_scanning *)

Scans == {"scheduled", "manual"}

IdleScan == [pc |-> "idle", added |-> <<>>]

\* `exists = db.query(ProductQueue).filter_by(product_id=pid).first()`: the
\* query autoflushes, so it sees the rows this session added to this page
Exists(q, added, pid) == pid \in QueuedIds(q) \/ pid \in Range(added)

\* the `for p in batch` loop: the product ids the page adds to the session
RECURSIVE PageAdds(_, _, _)
PageAdds(batch, q, added) ==
    IF batch = <<>> THEN added
    ELSE PageAdds(Tail(batch), q,
                  IF Exists(q, added, Head(batch)) THEN added ELSE Append(added, Head(batch)))

NewRows(added) == [i \in 1..Len(added) |-> ProductQueue(added[i], ProductTitle[added[i]])]

\* the page's inserts are refused: a row for one of the ids is already stored
PageConflict(q, added) ==
    \E i \in 1..Len(added) : UniqueViolation(q \o NewRows(SubSeq(added, 1, i - 1)), added[i])

\* a scan of one page with no other scan running: loop, commit, return
fetch_products_for_scanning(batch) ==
    LET added == PageAdds(batch, queue, <<>>)
    IN  /\ added # <<>>
        /\ ~PageConflict(queue, added)
        /\ queue' = queue \o NewRows(added)
        /\ UNCHANGED <<suggestions, hierarchy, memberships, drain, scan, sync, obs, cl, lg, rc, apply>>

\* one page of shopify.Product.find / next_page, up to the commit
ScanPage(s, batch) ==
    /\ scan[s].pc \in {"idle", "next"}
    /\ scan' = [scan EXCEPT ![s] = [pc |-> "commit", added |-> PageAdds(batch, queue, <<>>)]]
    /\ UNCHANGED <<queue, suggestions, hierarchy, memberships, drain, sync, obs, cl, lg, rc, apply>>

\* db.commit() of the page; an IntegrityError leaves fetch_products_for_scanning
\* through `finally`, the page's inserts rolled back.  has_next: has_next_page()
ScanCommit(s, has_next) ==
    LET added == scan[s].added
    IN  /\ scan[s].pc = "commit"
        /\ IF PageConflict(queue, added)
           THEN /\ scan' = [scan EXCEPT ![s] = IdleScan]
                /\ UNCHANGED queue
           ELSE /\ queue' = queue \o NewRows(added)
                /\ scan' = [scan EXCEPT ![s] = [pc |-> IF has_next THEN "next" ELSE "idle",
                                                added |-> <<>>]]
        /\ UNCHANGED <<suggestions, hierarchy, memberships, drain, sync, obs, cl, lg, rc, apply>>

-----------------------------------------------------------------------------
(* ShopifyClient.fetch_all_collections *)

IdleSync == [pc |-> "idle", all_collections |-> <<>>]

\* variant of SyncDelete: the deletion left uncommitted until the inserts are
SyncDeleteDeferred(all_collections) ==
    /\ sync.pc = "idle"
    /\ sync' = [pc |-> "deleted", all_collections |-> all_collections]
    /\ UNCHANGED <<queue, suggestions, hierarchy, memberships, drain, scan, obs, cl, lg, rc, apply>>

\* the two find/next_page loops, then
\* db.query(CollectionHierarchy).delete(); db.commit()
SyncDelete(all_collections) ==
    /\ sync.pc = "idle"
    /\ hierarchy' = {}
    /\ sync' = [pc |-> "deleted", all_collections |-> all_collections]
    /\ UNCHANGED <<queue, suggestions, memberships, drain, scan, obs, cl, lg, rc, apply>>

\* the loop that adds one row per fetched collection, and its commit
SyncInsert ==
    /\ sync.pc = "deleted"
    /\ hierarchy' = {CollectionHierarchy(sync.all_collections[i]) :
                        i \in 1..Len(sync.all_collections)}
    /\ sync' = IdleSync
    /\ UNCHANGED <<queue, suggestions, memberships, drain, scan, obs, cl, lg, rc, apply>>

\* the insert loop or its commit (line 128) raises: the inserts are rolled
\* back by `finally: db.close()`, the committed deletion stays
SyncInsertFails ==
    /\ sync.pc = "deleted"
    /\ sync' = IdleSync
    /\ UNCHANGED <<queue, suggestions, hierarchy, memberships, drain, scan, obs, cl, lg, rc, apply>>

-----------------------------------------------------------------------------
(* app.py retry_errors *)

\* variant of ResetRow: the retry counter left as it was
ResetRowKeepingCount(product) ==
    [product EXCEPT !.status = "pending", !.error_message = ""]

\* the body of `for product in error_products` (lines 264-266)
ResetRow(product) ==
    [product EXCEPT !.status = "pending", !.error_message = "", !.retry_count = 0]

\* (with no row in error the handler changes nothing)
retry_errors ==
    /\ \E i \in 1..Len(queue) : queue[i].status = "error"
    /\ queue' = [i \in 1..Len(queue) |->
                    IF queue[i].status = "error" THEN ResetRow(queue[i]) ELSE queue[i]]
    /\ UNCHANGED <<suggestions, hierarchy, memberships, drain, scan, sync, obs, cl, lg, rc, apply>>

-----------------------------------------------------------------------------
(* AIClassifier.process_queue *)

Drains == {"scheduled", "manual"}

RetryCeiling == 3

NoLedgerWrite ==
    [name |-> "", product_ids_written |-> FALSE, product_ids |-> <<>>, product_count |-> 0]

\* the session of one invocation: `view` holds the selected rows as the select
\* loaded them, until a commit expires them (`expired`; they are then re-read
\* on access); `dirty` and `sdirty` are the changes the next commit will write
IdleDrain ==
    [pc |-> "idle", batch_size |-> 0, pending_products |-> <<>>, k |-> 0, view |-> <<>>,
     expired |-> FALSE,
     dirty |-> <<>>, sdirty |-> NoLedgerWrite, processed_count |-> 0,
     result |-> ErrorResult("")]

\* variant of Selectable: the filter on the retry counter alone
SelectableAnyStatus(row) == row.retry_count < RetryCeiling

\* filter(status == 'pending', retry_count < 3)
Selectable(row) == row.status = "pending" /\ row.retry_count < RetryCeiling

\* .limit(batch_size).all(): the first batch_size matching rows, as positions
RECURSIVE pending_products(_, _, _)
pending_products(q, from, batch_size) ==
    IF from > Len(q) \/ batch_size <= 0 THEN <<>>
    ELSE IF Selectable(q[from])
         THEN <<from>> \o pending_products(q, from + 1, batch_size - 1)
         ELSE pending_products(q, from + 1, batch_size)

\* the column changes one iteration leaves in the session
NoTitleWrite(pos) ==
    [pos |-> pos, kind |-> "no_title", error_message |-> "Product has no title",
     retry_count |-> 0, assigned_collections |-> <<>>]

\* variant of ErrorWrite: the retry counter left as it was
ErrorWriteNoIncrement(pos, product, result) ==
    [pos |-> pos, kind |-> "error", error_message |-> result.error,
     retry_count |-> product.retry_count, assigned_collections |-> <<>>]

ErrorWrite(pos, product, result) ==
    [pos |-> pos, kind |-> "error", error_message |-> result.error,
     retry_count |-> product.retry_count + 1, assigned_collections |-> <<>>]

ProcessedWrite(pos, result) ==
    [pos |-> pos, kind |-> "processed", error_message |-> "",
     retry_count |-> 0, assigned_collections |-> result.assigned_collections]

\* the UPDATE of one product_queue row at commit
StoreRow(row, w) ==
    CASE w.kind = "no_title" ->
            [row EXCEPT !.status = "error", !.error_message = w.error_message]
      [] w.kind = "error" ->
            [row EXCEPT !.status = "error", !.error_message = w.error_message,
                        !.retry_count = w.retry_count]
      [] OTHER ->
            [row EXCEPT !.assigned_collections = w.assigned_collections,
                        !.status = "processed", !.processed = TRUE]

RECURSIVE Flush(_, _)
Flush(q, dirty) ==
    IF dirty = <<>> THEN q
    ELSE Flush([q EXCEPT ![Head(dirty).pos] = StoreRow(@, Head(dirty))], Tail(dirty))

\* the exhaustion errors of the retry policy
TransientErrors ==
    {"OpenAI rate limit exceeded after retries", "OpenAI API timeout after retries"}

\* `if not product.title`
NoTitle(product) == product.title = ""

TransientSignals == {"RateLimitError", "APITimeoutError"}

RECURSIVE LeadingTransient(_)
LeadingTransient(responses) ==
    IF responses = <<>> THEN 0
    ELSE IF Head(responses).kind \in TransientSignals
         THEN 1 + LeadingTransient(Tail(responses))
         ELSE 0

\* how a classification fails, told from what the call is given: no category
\* at any level, only rate-limit/timeout signals for the first request and the
\* retries, or another exception of the client ("" when it does not fail)
Failure(hier, responses) ==
    LET n == LeadingTransient(responses)
    IN  IF \A c \in hier : c.level \notin {1, 2, 3} THEN "NoHierarchyAvailable"
        ELSE IF n >= max_retries + 1 \/ n >= Len(responses) THEN "Exhausted"
        ELSE IF responses[n + 1].kind = "APIError" THEN "Exception"
        ELSE ""

\* the body of the first answer that is not a rate-limit or timeout signal,
\* within the retries, is not parseable JSON
Malformed(hier, responses) ==
    LET n == LeadingTransient(responses)
    IN  /\ \E c \in hier : c.level \in {1, 2, 3}
        /\ n <= max_retries
        /\ n < Len(responses)
        /\ responses[n + 1].kind = "JSONDecodeError"

\* what is noted of a classify_product call given an unparseable body: the
\* requests it made after receiving that body
NotMalformed == [seen |-> FALSE, retries |-> 0]

MalformedSeen(hier, responses) ==
    IF Malformed(hier, responses)
    THEN [seen |-> TRUE,
          retries |-> classify_product(hier, responses, 0).requests
                        - (LeadingTransient(responses) + 1)]
    ELSE NotMalformed

\* the row object of the session: loaded by the select, re-read once expired
SessionRow(dr, k) == IF dr.expired THEN queue[dr.pending_products[k]] ELSE dr.view[k]

\* no other invocation of the same handler is running
Serial(procs, p) == \A o \in DOMAIN procs \ {p} : procs[o].pc = "idle"

\* process_queue(batch_size), up to the loop
DrainSelect(d, batch_size) ==
    /\ drain[d].pc = "idle"
    /\ drain' = [drain EXCEPT ![d] =
                    LET selected == pending_products(queue, 1, batch_size)
                    IN  [IdleDrain EXCEPT !.pc = "loop",
                                          !.batch_size = batch_size,
                                          !.pending_products = selected,
                                          !.k = 1,
                                          !.view = [i \in 1..Len(selected) |-> queue[selected[i]]]]]
    /\ UNCHANGED <<queue, suggestions, hierarchy, memberships, scan, sync, obs, cl, lg, rc, apply>>

\* process_queue(batch_size) called while no other invocation is running
process_queue(d, batch_size) == Serial(drain, d) /\ DrainSelect(d, batch_size)

\* lines 221-233: attach the product id to the suggestion the result carries
LedgerAttach(tbl, result, product_id) ==
    LET suggestion == result.new_collection_suggestion
        existing == tbl[suggestion.suggested_name]
    IN  IF suggestion.present /\ suggestion.suggested_name # ""
           /\ existing.exists /\ product_id \notin Range(existing.product_ids)
        THEN LET w == AppendProductId(existing, product_id)
             IN  [name |-> suggestion.suggested_name,
                  product_ids_written |-> w.product_ids_written,
                  product_ids |-> w.product_ids,
                  product_count |-> w.product_count]
        ELSE NoLedgerWrite

\* one iteration of `for product in pending_products`, up to db.commit():
\* the title check, the classify_product call (with the ledger merge it makes
\* in its own session) and the changes made to the session's objects.
\* merge_ok: the commit of _process_collection_suggestion succeeds; when it
\* raises, the merge is rolled back and the exception is swallowed (lines
\* 176-178), classify_product returning its result all the same
DrainStep(d, responses, merge_ok) ==
    LET dr == drain[d]
        pos == dr.pending_products[dr.k]
        product == SessionRow(dr, dr.k)
        c == classify_product(hierarchy, responses, 0)
        merged == IF c.merge.present /\ merge_ok
                  THEN process_collection_suggestion(suggestions, c.merge.suggested_name,
                                                     c.merge.parent_collection, "")
                  ELSE suggestions
    IN  /\ dr.pc = "loop"
        /\ dr.k <= Len(dr.pending_products)
        /\ merge_ok \/ (~NoTitle(product) /\ c.merge.present)
        /\ IF NoTitle(product)
           THEN /\ drain' = [drain EXCEPT ![d].dirty = Append(@, NoTitleWrite(pos)),
                                          ![d].k = @ + 1]
                /\ UNCHANGED <<suggestions, obs>>
           ELSE /\ suggestions' = merged
                /\ obs' = [obs EXCEPT !.untitled_classified = @ \/ product.title = "",
                                      !.failure[d] = Failure(hierarchy, responses),
                                      !.malformed[d] = MalformedSeen(hierarchy, responses)]
                /\ IF c.result.error # ""
                   THEN drain' = [drain EXCEPT ![d].pc = "commit",
                                     ![d].result = c.result,
                                     ![d].dirty = Append(@, ErrorWrite(pos, product, c.result))]
                   ELSE drain' = [drain EXCEPT ![d].pc = "commit",
                                     ![d].result = c.result,
                                     ![d].dirty = Append(@, ProcessedWrite(pos, c.result)),
                                     ![d].sdirty = LedgerAttach(merged, c.result, product.product_id),
                                     ![d].processed_count = @ + 1]
        /\ UNCHANGED <<queue, hierarchy, memberships, scan, sync, cl, lg, rc, apply>>

\* an iteration whose ledger merge, if any, is committed
DrainItem(d, responses) == drain[d].pc = "loop" /\ DrainStep(d, responses, TRUE)

\* an iteration whose ledger merge fails at its commit
DrainItemMergeFails(d, responses) == drain[d].pc = "loop" /\ DrainStep(d, responses, FALSE)

\* consecutive transient classifier failures recorded per product
Streak(streak, w, product_id) ==
    IF w.kind = "error" /\ w.error_message \in TransientErrors
    THEN [streak EXCEPT ![product_id] = Min(@ + 1, RetryCeiling)]
    ELSE [streak EXCEPT ![product_id] = 0]

\* the rows a commit stores with status 'processed'
StoredProcessed(dirty) ==
    Cardinality({i \in 1..Len(dirty) : dirty[i].kind = "processed"})

\* db.commit() at line 237, then on to the next product
DrainCommit(d) ==
    LET dr == drain[d]
        last == dr.dirty[Len(dr.dirty)]
    IN  /\ dr.pc = "commit"
        /\ queue' = Flush(queue, dr.dirty)
        /\ suggestions' = IF dr.sdirty.name # ""
                          THEN [suggestions EXCEPT ![dr.sdirty.name] = StoreSuggestion(@, dr.sdirty)]
                          ELSE suggestions
        /\ drain' = [drain EXCEPT ![d].pc = "loop", ![d].k = @ + 1, ![d].expired = TRUE,
                                  ![d].view = <<>>, ![d].dirty = <<>>, ![d].sdirty = NoLedgerWrite,
                                  ![d].result = ErrorResult("")]
        /\ obs' = [obs EXCEPT !.streak = Streak(@, last, queue[last.pos].product_id),
                              !.failure[d] = "",
                              !.malformed[d] = NotMalformed,
                              !.stored[d] = @ + StoredProcessed(dr.dirty)]
        /\ UNCHANGED <<hierarchy, memberships, scan, sync, cl, lg, rc, apply>>

\* db.commit() at line 237 raises: the transaction is rolled back, nothing of
\* the session's changes is stored.  The `except` of the iteration then sets
\* status, error_message and retry_count on the row object and commits.
\* recovers: the session accepts that work and the second commit stores it;
\* otherwise the session refuses it (it needs a rollback the code does not
\* issue), the exception leaves the loop for the outer `except` (line 255)
DrainCommitFails(d, recovers) ==
    LET dr == drain[d]
        pos == dr.pending_products[dr.k]
    IN  /\ dr.pc = "commit"
        /\ IF recovers
           THEN /\ queue' = [queue EXCEPT ![pos] =
                                [@ EXCEPT !.status = "error",
                                          !.error_message = "commit failed",
                                          !.retry_count = @ + 1]]
                /\ drain' = [drain EXCEPT ![d].pc = "loop", ![d].k = @ + 1,
                                          ![d].expired = TRUE, ![d].view = <<>>,
                                          ![d].dirty = <<>>, ![d].sdirty = NoLedgerWrite,
                                          ![d].result = ErrorResult("")]
           ELSE /\ UNCHANGED queue
                /\ drain' = [drain EXCEPT ![d].pc = "raised", ![d].view = <<>>,
                                          ![d].dirty = <<>>, ![d].sdirty = NoLedgerWrite,
                                          ![d].result = ErrorResult("")]
        /\ obs' = [obs EXCEPT !.failure[d] = "", !.malformed[d] = NotMalformed]
        /\ UNCHANGED <<suggestions, hierarchy, memberships, scan, sync, cl, lg, rc, apply>>

\* `return processed_count`; db.close() discards what was not committed
DrainReturn(d) ==
    /\ drain[d].pc = "loop"
    /\ drain[d].k > Len(drain[d].pending_products)
    /\ drain' = [drain EXCEPT ![d] = IdleDrain]
    /\ obs' = [obs EXCEPT !.stored[d] = 0]
    /\ UNCHANGED <<queue, suggestions, hierarchy, memberships, scan, sync, cl, lg, rc, apply>>

\* the outer `except` (lines 255-257): `return processed_count` with the rest
\* of the batch not handled
DrainAbort(d) ==
    /\ drain[d].pc = "raised"
    /\ drain' = [drain EXCEPT ![d] = IdleDrain]
    /\ obs' = [obs EXCEPT !.stored[d] = 0]
    /\ UNCHANGED <<queue, suggestions, hierarchy, memberships, scan, sync, cl, lg, rc, apply>>

-----------------------------------------------------------------------------
(* app.py apply_assignments *)

ApplyLimit == 10

\* the handler between requests; `products` is the selection of a running one
IdleApply == [pc |-> "idle", products |-> <<>>]

\* update_product_collections(product_id, collection_ids): level_map=None
NoLevelMap == [cid \in {} |-> 0]

DefaultMaxL3 == 2

\* filter_by(status='processed', applied=False).limit(10).all(), as positions
RECURSIVE ApplySelection(_, _, _)
ApplySelection(q, from, limit) ==
    IF from > Len(q) \/ limit <= 0 THEN <<>>
    ELSE IF q[from].status = "processed" /\ ~q[from].applied
         THEN <<from>> \o ApplySelection(q, from + 1, limit - 1)
         ELSE ApplySelection(q, from + 1, limit)

\* variant of Confident: the threshold included
ConfidentInclusive(c) == c.confidence >= 80

\* c.get('confidence', 0) > 0.8
Confident(c) == c.confidence > 80

\* [c['id'] for c in product.assigned_collections if c.get('confidence', 0) > 0.8]
collection_ids(product) ==
    LET accepted == SelectSeq(product.assigned_collections, Confident)
    IN  [i \in 1..Len(accepted) |-> accepted[i].id]

\* the collects the call writes for a product, in order
ApplyWrites(product, m) ==
    AllowedAdd(collection_ids(product), m[product.product_id], NoLevelMap, DefaultMaxL3)

\* the loop over the selected products when no catalog call raises:
\* the rows of the session and the catalog afterwards
RECURSIVE ApplyLoop(_, _, _)
ApplyLoop(products, q, m) ==
    IF products = <<>> THEN [queue |-> q, memberships |-> m]
    ELSE LET pos == Head(products)
             product == q[pos]
         IN  IF collection_ids(product) # <<>>
             THEN ApplyLoop(Tail(products),
                            [q EXCEPT ![pos].applied = TRUE],
                            [m EXCEPT ![product.product_id] = @ \cup Range(ApplyWrites(product, m))])
             ELSE ApplyLoop(Tail(products), q, m)

\* the handler when every catalog call succeeds: db.commit() stores the flags
apply_assignments ==
    LET products == ApplySelection(queue, 1, ApplyLimit)
        after == ApplyLoop(products, queue, memberships)
    IN  /\ products # <<>>
        /\ queue' = after.queue
        /\ memberships' = after.memberships
        /\ UNCHANGED <<suggestions, hierarchy, drain, scan, sync, obs, cl, lg, rc, apply>>

\* the handler when a catalog call raises for the j-th selected product after
\* `written` of its collects were saved: the exception leaves the loop for the
\* handler's `except`, db.commit() is not reached
apply_assignments_raises(j, written) ==
    LET products == ApplySelection(queue, 1, ApplyLimit)
        before == ApplyLoop(SubSeq(products, 1, j - 1), queue, memberships)
        product == queue[products[j]]
        writes == ApplyWrites(product, before.memberships)
    IN  /\ j \in 1..Len(products)
        /\ collection_ids(product) # <<>>
        /\ written \in 0..Max(0, Len(writes) - 1)
        /\ memberships' = [before.memberships EXCEPT ![product.product_id] =
                               @ \cup Range(SubSeq(writes, 1, written))]
        /\ UNCHANGED <<queue, suggestions, hierarchy, drain, scan, sync, obs, cl, lg, rc, apply>>

\* apply_assignments up to the loop: the select of at most 10 rows
ApplySelect ==
    /\ apply.pc = "idle"
    /\ apply' = [pc |-> "loop", products |-> ApplySelection(queue, 1, ApplyLimit)]
    /\ UNCHANGED <<queue, suggestions, hierarchy, memberships, drain, scan, sync, obs, cl, lg, rc>>

\* the loop over the selected rows with every catalog call succeeding, then
\* db.commit(), db.close() and the response
ApplyCommit ==
    LET after == ApplyLoop(apply.products, queue, memberships)
    IN  /\ apply.pc = "loop"
        /\ queue' = after.queue
        /\ memberships' = after.memberships
        /\ apply' = IdleApply
        /\ UNCHANGED <<suggestions, hierarchy, drain, scan, sync, obs, cl, lg, rc>>

-----------------------------------------------------------------------------
(* The pipeline: the handlers above, interleaved at their commits *)

MaxPage == 2

MaxBatch == 2

\* the pages a scan can be served
Pages == SeqsUpTo(Products, MaxPage)

\* scheduler.py:59 passes batch_size=20; app.py:141 takes it from the form
BatchSizes(d) == IF d = "scheduled" THEN {20} ELSE 1..MaxBatch

Exhausted(signal) == [i \in 1..(max_retries + 1) |-> signal]

\* the answers of the model to the requests of one classify_product call
DrainResponses ==
    {<<a>> : a \in Answers}
    \cup {<<JSONDecodeError>>, <<RateLimitError, APIError>>, Exhausted(RateLimitError)}

IdleCall == [pc |-> "off"]

NoObservations ==
    [untitled_classified |-> FALSE, streak |-> [p \in Products |-> 0],
     failure |-> [d \in Drains |-> ""], malformed |-> [d \in Drains |-> NotMalformed],
     stored |-> [d \in Drains |-> 0]]

InitStore ==
    /\ queue = <<>>
    /\ suggestions = [n \in Names |-> NoSuggestionRow]
    /\ hierarchy = {}
    /\ memberships = [p \in Products |-> {}]
    /\ drain = [d \in Drains |-> IdleDrain]
    /\ scan = [s \in Scans |-> IdleScan]
    /\ sync = IdleSync
    /\ obs = NoObservations
    /\ apply = IdleApply

Init ==
    /\ InitStore
    /\ cl = IdleCall
    /\ lg = IdleCall
    /\ rc = IdleCall

Next ==
    \/ \E batch \in Pages : fetch_products_for_scanning(batch)
    \/ SyncDelete(StorefrontCollections)
    \/ SyncInsert
    \/ \E d \in Drains : \E batch_size \in BatchSizes(d) : process_queue(d, batch_size)
    \/ \E d \in Drains, responses \in DrainResponses : DrainItem(d, responses)
    \/ \E d \in Drains : DrainCommit(d)
    \/ \E d \in Drains : DrainReturn(d)
    \/ retry_errors
    \/ apply_assignments
    \/ \E j \in 1..ApplyLimit, written \in 0..2 : apply_assignments_raises(j, written)

\* the handlers run in any order; two invocations of process_queue, or of the
\* scan, do not overlap
Spec == Init /\ [][Next]_vars

-----------------------------------------------------------------------------
(* Overlapping scans: the scheduled scan and the manual one, page by page *)

InitScan == Init

NextScan ==
    \/ \E s \in Scans, batch \in Pages : ScanPage(s, batch)
    \/ \E s \in Scans, has_next \in BOOLEAN : ScanCommit(s, has_next)

SpecScan == InitScan /\ [][NextScan]_vars

-----------------------------------------------------------------------------
(* A sync of an empty hierarchy from any collection titles *)

MaxTitle == 7

RECURSIVE Flatten(_)
Flatten(pieces) == IF pieces = <<>> THEN <<>> ELSE Head(pieces) \o Flatten(Tail(pieces))

\* titles made of up to MaxTitle pieces: a word, a space, a '>' or a separator
Titles == {Flatten(pieces) : pieces \in SeqsUpTo({<<"Men">>, <<" ">>, <<">">>, sep}, MaxTitle)}

FourParts ==
    <<"Men", " ", ">", " ", "Shoes", " ", ">", " ", "Running", " ", ">", " ", "Trail">>

\* what the storefront can return: one collection of any title, the
\* storefront's three collections, or those and one of four parts
SyncInputs ==
    {<<Collection("A", t)>> : t \in Titles}
    \cup {StorefrontCollections, Append(StorefrontCollections, Collection("B", FourParts))}

\* the sync has fetched the collections and emptied the table
InitSync ==
    /\ queue = <<>>
    /\ suggestions = [n \in Names |-> NoSuggestionRow]
    /\ hierarchy = {}
    /\ memberships = [p \in Products |-> {}]
    /\ drain = [d \in Drains |-> IdleDrain]
    /\ scan = [s \in Scans |-> IdleScan]
    /\ sync \in {[pc |-> "deleted", all_collections |-> a] : a \in SyncInputs}
    /\ obs = NoObservations
    /\ apply = IdleApply
    /\ cl = IdleCall
    /\ lg = IdleCall
    /\ rc = IdleCall

NextSync ==
    \/ SyncInsert
    \/ SyncDelete(StorefrontCollections)

SpecSync == InitSync /\ [][NextSync]_vars

-----------------------------------------------------------------------------
(* One classify_product call on any hierarchy and any run of answers *)

MaxStream == 5

StreamSignals ==
    {RateLimitError, APITimeoutError, JSONDecodeError, APIError,
     Answer(<<Assigned("A", 90)>>, Suggest("Garden"))}

\* the storefront's rows and a second node at level 3
ClassifyRows == HierarchyRows \cup {CollectionHierarchy(Collection("B", FourParts))}

InitClassify ==
    /\ InitStore
    /\ lg = IdleCall
    /\ rc = IdleCall
    /\ cl \in {[pc |-> "call", hier |-> h, responses |-> r,
                out |-> classify_product({}, <<>>, 0)] :
                    h \in SUBSET ClassifyRows, r \in [1..MaxStream -> StreamSignals]}

ClassifyCall ==
    /\ cl.pc = "call"
    /\ cl' = [cl EXCEPT !.pc = "done", !.out = classify_product(cl.hier, cl.responses, 0)]
    /\ UNCHANGED <<queue, suggestions, hierarchy, memberships, drain, scan, sync, obs, lg, rc, apply>>

NextClassify == ClassifyCall

SpecClassify == InitClassify /\ [][NextClassify]_vars

-----------------------------------------------------------------------------
(* Calls of _process_collection_suggestion on the ledger, in any order *)

MaxCalls == 4

InitLedger ==
    /\ InitStore
    /\ cl = IdleCall
    /\ rc = IdleCall
    /\ lg = [pc |-> "on", suggested_name |-> "", product_id |-> "", calls |-> 0,
             repeated |-> FALSE, given |-> [n \in Names |-> {}]]

\* given: the product ids the calls have named for each suggested name;
\* repeated: the call had the arguments of the call before it
RecordSuggestion(suggested_name, product_id) ==
    /\ lg.pc = "on"
    /\ lg.calls < MaxCalls
    /\ suggestions' = process_collection_suggestion(suggestions, suggested_name, "Home", product_id)
    /\ lg' = [lg EXCEPT !.suggested_name = suggested_name,
                        !.product_id = product_id,
                        !.calls = @ + 1,
                        !.repeated = lg.calls > 0 /\ lg.suggested_name = suggested_name
                                     /\ lg.product_id = product_id,
                        !.given[suggested_name] = @ \cup ({product_id} \ {""})]
    /\ UNCHANGED <<queue, hierarchy, memberships, drain, scan, sync, obs, cl, rc, apply>>

NextLedger == \E n \in Names, product_id \in Products \cup {""} : RecordSuggestion(n, product_id)

SpecLedger == InitLedger /\ [][NextLedger]_vars

-----------------------------------------------------------------------------
(* One update_product_collections call on any memberships and arguments *)

MaxTarget == 3

MaxL3Arg == 2

\* A, B and D are level 3, C is level 1
ExampleLevelMap == [cid \in Collections |-> IF cid = "C" THEN 1 ELSE 3]

LevelMaps == {NoLevelMap, ExampleLevelMap}

InitReconcile ==
    /\ InitStore
    /\ cl = IdleCall
    /\ lg = IdleCall
    /\ rc \in {[pc |-> "call", current |-> c, members |-> c, target |-> t, level_map |-> lm,
                max_l3 |-> m, cleanup |-> b, allowed |-> <<>>, removed |-> {}] :
                    c \in SUBSET Collections, t \in SeqsUpTo(Collections, MaxTarget),
                    lm \in LevelMaps, m \in 0..MaxL3Arg, b \in BOOLEAN}

\* lines 182-204: fetch, select, save every collect of allowed_add
ReconcileAdd ==
    LET allowed == AllowedAdd(rc.target, rc.members, rc.level_map, rc.max_l3)
    IN  /\ rc.pc = "call"
        /\ rc' = [rc EXCEPT !.pc = "added", !.allowed = allowed,
                            !.members = @ \cup Range(allowed)]
        /\ UNCHANGED <<queue, suggestions, hierarchy, memberships, drain, scan, sync, obs, cl, lg, apply>>

\* collect.save() raises after `written` collects were saved
ReconcileAddRaises(written) ==
    LET allowed == AllowedAdd(rc.target, rc.members, rc.level_map, rc.max_l3)
    IN  /\ rc.pc = "call"
        /\ written < Len(allowed)
        /\ rc' = [rc EXCEPT !.pc = "raised", !.allowed = allowed,
                            !.members = @ \cup Range(SubSeq(allowed, 1, written))]
        /\ UNCHANGED <<queue, suggestions, hierarchy, memberships, drain, scan, sync, obs, cl, lg, apply>>

\* lines 206-218: the optional cleanup, then `return True`
ReconcileCleanup ==
    /\ rc.pc = "added"
    /\ IF rc.cleanup /\ DOMAIN rc.level_map # {}
       THEN \E R \in RemoveChoices(rc.members, rc.target, rc.level_map, rc.max_l3) :
                rc' = [rc EXCEPT !.pc = "returned", !.removed = R, !.members = @ \ R]
       ELSE rc' = [rc EXCEPT !.pc = "returned"]
    /\ UNCHANGED <<queue, suggestions, hierarchy, memberships, drain, scan, sync, obs, cl, lg, apply>>

NextReconcile ==
    \/ ReconcileAdd
    \/ \E written \in 0..MaxTarget : ReconcileAddRaises(written)
    \/ ReconcileCleanup

SpecReconcile == InitReconcile /\ [][NextReconcile]_vars

-----------------------------------------------------------------------------
(* The drain on a scanned queue, with storage errors at the commits *)

\* the queue a scan of one page leaves
ScannedQueues == {NewRows(PageAdds(batch, <<>>, <<>>)) : batch \in Pages}

InitFault ==
    /\ queue \in ScannedQueues
    /\ suggestions = [n \in Names |-> NoSuggestionRow]
    /\ hierarchy = HierarchyRows
    /\ memberships = [p \in Products |-> {}]
    /\ drain = [d \in Drains |-> IdleDrain]
    /\ scan = [s \in Scans |-> IdleScan]
    /\ sync = IdleSync
    /\ obs = NoObservations
    /\ apply = IdleApply
    /\ cl = IdleCall
    /\ lg = IdleCall
    /\ rc = IdleCall

NextFault ==
    \/ \E d \in Drains : \E batch_size \in BatchSizes(d) : process_queue(d, batch_size)
    \/ \E d \in Drains, responses \in DrainResponses : DrainItem(d, responses)
    \/ \E d \in Drains, responses \in DrainResponses : DrainItemMergeFails(d, responses)
    \/ \E d \in Drains : DrainCommit(d)
    \/ \E d \in Drains, recovers \in BOOLEAN : DrainCommitFails(d, recovers)
    \/ \E d \in Drains : DrainReturn(d)
    \/ \E d \in Drains : DrainAbort(d)

SpecFault == InitFault /\ [][NextFault]_vars

-----------------------------------------------------------------------------
(* Overlapping drains: the scheduled job and a manual trigger, each with its *)
(* own session, interleaved between their statements' commits              *)

InitOverlap == InitFault

NextOverlap ==
    \/ \E d \in Drains : \E batch_size \in BatchSizes(d) : DrainSelect(d, batch_size)
    \/ \E d \in Drains, responses \in DrainResponses : DrainItem(d, responses)
    \/ \E d \in Drains : DrainCommit(d)
    \/ \E d \in Drains : DrainReturn(d)

SpecOverlap == InitOverlap /\ [][NextOverlap]_vars

-----------------------------------------------------------------------------
(* Drains and resets while the model is unavailable: the scheduled job and *)
(* the requests to /process-queue the threaded server handles at a time,  *)
(* each with its own session                                              *)

Requests == Drains \cup {"manual_2", "manual_3"}

\* scheduler.py:59 passes batch_size=20; the form default of app.py:141 is 10
RequestBatch(d) == IF d = "scheduled" THEN 20 ELSE 10

\* every request to the model, and every retry, is answered 429
Outage == {Exhausted(RateLimitError)}

\* the invocations start before any result is stored
Untouched == \A i \in 1..Len(queue) : queue[i].status = "pending"

DrainArrives(d) == Untouched /\ DrainSelect(d, RequestBatch(d))

InitOutage ==
    /\ queue = NewRows(PageAdds(<<"p2", "p3">>, <<>>, <<>>))
    /\ suggestions = [n \in Names |-> NoSuggestionRow]
    /\ hierarchy = HierarchyRows
    /\ memberships = [p \in Products |-> {}]
    /\ drain = [d \in Requests |-> IdleDrain]
    /\ scan = [s \in Scans |-> IdleScan]
    /\ sync = IdleSync
    /\ obs = [NoObservations EXCEPT !.failure = [d \in Requests |-> ""],
                                     !.malformed = [d \in Requests |-> NotMalformed],
                                     !.stored = [d \in Requests |-> 0]]
    /\ apply = IdleApply
    /\ cl = IdleCall
    /\ lg = IdleCall
    /\ rc = IdleCall

NextOutage ==
    \/ \E d \in Requests : DrainArrives(d)
    \/ \E d \in Requests, responses \in Outage : DrainItem(d, responses)
    \/ \E d \in Requests : DrainCommit(d)
    \/ \E d \in Requests : DrainReturn(d)

SpecOutage == InitOutage /\ [][NextOutage]_vars

-----------------------------------------------------------------------------
(* Rebuilds of a synced hierarchy while the drain runs *)

InitRebuild == InitFault

NextRebuild ==
    \/ SyncDelete(StorefrontCollections)
    \/ SyncInsert
    \/ SyncInsertFails
    \/ \E d \in Drains : \E batch_size \in BatchSizes(d) : process_queue(d, batch_size)
    \/ \E d \in Drains, responses \in DrainResponses : DrainItem(d, responses)
    \/ \E d \in Drains : DrainCommit(d)
    \/ \E d \in Drains : DrainReturn(d)

SpecRebuild == InitRebuild /\ [][NextRebuild]_vars

-----------------------------------------------------------------------------
(* The drain invoked again and again: the scheduler's interval job and the *)
(* manual trigger, one invocation at a time, each running to its return   *)

InitProgress == InitFault

NextProgress ==
    \/ \E d \in Drains : \E batch_size \in BatchSizes(d) : process_queue(d, batch_size)
    \/ \E d \in Drains, responses \in DrainResponses : DrainItem(d, responses)
    \/ \E d \in Drains : DrainCommit(d)
    \/ \E d \in Drains : DrainReturn(d)

\* the interval trigger fires the job whenever it is due, and a started
\* invocation runs its loop to the end
DrainFairness ==
    /\ \A d \in Drains :
          WF_vars(\E batch_size \in BatchSizes(d) : process_queue(d, batch_size))
    /\ \A d \in Drains : WF_vars(\E responses \in DrainResponses : DrainItem(d, responses))
    /\ \A d \in Drains : WF_vars(DrainCommit(d))
    /\ \A d \in Drains : WF_vars(DrainReturn(d))

SpecProgress == InitProgress /\ [][NextProgress]_vars /\ DrainFairness

-----------------------------------------------------------------------------
(* The apply handler on a queue the drain has worked on *)

\* what the drain has stored on an entry: nothing yet, or a classification
\* (the last one an entry an earlier apply run already applied)
EntryVariants ==
    {[status |-> "pending", assigned_collections |-> <<>>, applied |-> FALSE]}
    \cup {[status |-> "processed", assigned_collections |-> a, applied |-> FALSE] :
              a \in {<<>>,
                      <<Assigned("A", 90), Assigned("D", 80)>>,
                      <<Assigned("A", 95), Assigned("D", 85), Assigned("C", 60)>>,
                      <<Assigned("C", 60)>>,
                      <<Assigned("D", 80)>>}}
    \cup {[status |-> "processed", assigned_collections |-> <<Assigned("A", 90)>>,
           applied |-> TRUE]}

StoredEntry(row, v) ==
    [row EXCEPT !.status = v.status, !.assigned_collections = v.assigned_collections,
                !.processed = v.status = "processed", !.applied = v.applied]

ApplyQueues ==
    UNION {{[i \in 1..Len(q) |-> StoredEntry(q[i], v[i])] : v \in [1..Len(q) -> EntryVariants]} :
              q \in ScannedQueues}

InitApply ==
    /\ queue \in ApplyQueues
    /\ suggestions = [n \in Names |-> NoSuggestionRow]
    /\ hierarchy = HierarchyRows
    /\ memberships \in [Products -> {{}, {"A"}}]
    /\ \A i \in 1..Len(queue) : queue[i].applied => memberships[queue[i].product_id] = {"A"}
    /\ drain = [d \in Drains |-> IdleDrain]
    /\ scan = [s \in Scans |-> IdleScan]
    /\ sync = IdleSync
    /\ obs = NoObservations
    /\ apply = IdleApply
    /\ cl = IdleCall
    /\ lg = IdleCall
    /\ rc = IdleCall

NextApply ==
    \/ apply_assignments
    \/ \E j \in 1..ApplyLimit, written \in 0..2 : apply_assignments_raises(j, written)

SpecApply == InitApply /\ [][NextApply]_vars

-----------------------------------------------------------------------------
(* Scans of products the pipeline already holds, worked on by the drain   *)
(* and the apply handler, some of them edited in the storefront since     *)

\* what the queue holds of a product scanned earlier: the entry as the scan
\* created it, or with the title and text of before an edit in the storefront
\* and what the drain, and then the apply handler, stored on it
Worked(row) ==
    {row,
     [row EXCEPT !.title = "Old title", !.description = "Old text",
                 !.status = "error", !.error_message = "OpenAI API timeout after retries",
                 !.retry_count = 1],
     [row EXCEPT !.status = "processed", !.processed = TRUE,
                 !.assigned_collections = <<Assigned("A", 90), Assigned("D", 80)>>],
     [row EXCEPT !.title = "Old title", !.description = "Old text",
                 !.status = "processed", !.processed = TRUE,
                 !.assigned_collections = <<Assigned("A", 90), Assigned("D", 80)>>,
                 !.applied = TRUE]}

RescanQueues ==
    UNION {{w \in [1..Len(q) -> UNION {Worked(q[i]) : i \in 1..Len(q)}] :
                \A i \in 1..Len(q) : w[i] \in Worked(q[i])} :
              q \in ScannedQueues}

InitRescan ==
    /\ queue \in RescanQueues
    /\ suggestions = [n \in Names |-> NoSuggestionRow]
    /\ hierarchy = HierarchyRows
    /\ memberships = [p \in Products |->
                         IF \E i \in 1..Len(queue) : queue[i].product_id = p /\ queue[i].applied
                         THEN {"A"} ELSE {}]
    /\ drain = [d \in Drains |-> IdleDrain]
    /\ scan = [s \in Scans |-> IdleScan]
    /\ sync = IdleSync
    /\ obs = NoObservations
    /\ apply = IdleApply
    /\ cl = IdleCall
    /\ lg = IdleCall
    /\ rc = IdleCall

NextRescan ==
    \/ \E s \in Scans, batch \in Pages : ScanPage(s, batch)
    \/ \E s \in Scans, has_next \in BOOLEAN : ScanCommit(s, has_next)

SpecRescan == InitRescan /\ [][NextRescan]_vars

-----------------------------------------------------------------------------
(* The apply handler invoked again and again on a backlog of classified   *)
(* entries, every catalog write succeeding                                 *)

MaxWaiting == 2

BacklogIds == [i \in 1..(ApplyLimit + MaxWaiting) |-> "p" \o ToString(i)]

\* what the drain stored on an entry none of whose assignments is above 0.8
Unconfident ==
    {<<>>, <<Assigned("C", 60)>>, <<Assigned("D", 80)>>, <<Assigned("D", 80), Assigned("C", 60)>>}

\* n processed entries with the assignments `low`, followed in insertion
\* order by m processed entries with an assignment of confidence 0.9
Backlog(n, low, m) ==
    [i \in 1..(n + m) |->
        [ProductQueue(BacklogIds[i], "Lamp") EXCEPT
            !.status = "processed", !.processed = TRUE,
            !.assigned_collections =
                IF i <= n THEN low ELSE <<Assigned("A", 90), Assigned("D", 80)>>]]

InitBacklog ==
    /\ queue \in {Backlog(n, low, m) : n \in 0..ApplyLimit, low \in Unconfident,
                                          m \in 1..MaxWaiting}
    /\ suggestions = [n \in Names |-> NoSuggestionRow]
    /\ hierarchy = HierarchyRows
    /\ memberships = [p \in Range(BacklogIds) |-> {}]
    /\ drain = [d \in Drains |-> IdleDrain]
    /\ scan = [s \in Scans |-> IdleScan]
    /\ sync = IdleSync
    /\ obs = NoObservations
    /\ apply = IdleApply
    /\ cl = IdleCall
    /\ lg = IdleCall
    /\ rc = IdleCall

NextBacklog ==
    \/ ApplySelect
    \/ ApplyCommit

\* the endpoint is requested again and again and a request runs to its response
ApplyFairness == WF_vars(ApplySelect) /\ WF_vars(ApplyCommit)

SpecBacklog == InitBacklog /\ [][NextBacklog]_vars /\ ApplyFairness

-----------------------------------------------------------------------------
(* Properties *)

\* C1: every queue entry with status 'error' has a non-empty error_message
\* and retry_count >= 1
C1_ErrorHasMessageAndRetry ==
    \A i \in 1..Len(queue) :
        queue[i].status = "error" =>
            queue[i].error_message # "" /\ queue[i].retry_count >= 1

\* C2: for every suggestion record product_count equals the number of
\* distinct ids in product_ids, and product_ids holds no duplicates
C2_CountMatchesIds ==
    \A n \in Names :
        suggestions[n].exists =>
            /\ suggestions[n].product_count = Cardinality(Range(suggestions[n].product_ids))
            /\ Len(suggestions[n].product_ids) = Cardinality(Range(suggestions[n].product_ids))

\* C3: recordSuggestion is idempotent: a call that repeats the (name,
\* productId) pair of the call before it leaves the ledger as it was, and a
\* record for which the calls named one product id has product_count 1 however
\* often they named it (also when the record was created without an id)
C3_Idempotent ==
    /\ [][(lg'.calls = lg.calls + 1 /\ lg'.repeated) => suggestions' = suggestions]_vars
    /\ [](\A n \in Names :
            (suggestions[n].exists /\ Cardinality(lg.given[n]) = 1) =>
                /\ suggestions[n].product_count = 1
                /\ Range(suggestions[n].product_ids) = lg.given[n])

C3_Witness ==
    /\ lg.pc = "on"
    /\ lg.repeated
    /\ lg.suggested_name = "Vintage Lamps"
    /\ lg.product_id = "p1"
    /\ lg.given["Vintage Lamps"] = {"p1"}
    /\ suggestions["Vintage Lamps"].product_count = 1

\* C4: after 3 consecutive transient classifier failures of an entry, the
\* entry has status 'error' and is out of the drain's selection because its
\* retry_count has reached the ceiling of 3
C4_RetryCeiling ==
    \A i \in 1..Len(queue) :
        obs.streak[queue[i].product_id] >= 3 =>
            /\ queue[i].status = "error"
            /\ queue[i].retry_count >= RetryCeiling
            /\ ~Selectable(queue[i])

L3Added(call) ==
    Cardinality({i \in 1..Len(call.allowed) : IsLevel3(call.level_map, call.allowed[i])})

\* C5: in the add phase a level-3 candidate is added only while the running
\* level-3 count is below maxL3 and every non-level-3 candidate is added, so
\* the level-3 count afterwards is at most max(maxL3, the count before);
\* A,B level 3, C level 1, maxL3=1, current {A}, target [B, C] gives {A, C}
C5_L3CapOnAdd ==
    rc.pc = "added" =>
        /\ rc.members = rc.current \cup Range(rc.allowed)
        /\ Range(rc.allowed) \subseteq Range(rc.target) \ rc.current
        /\ \A cid \in Range(rc.target) :
              ~IsLevel3(rc.level_map, cid) => cid \in rc.members
        /\ L3Added(rc) <= Max(0, rc.max_l3 - L3Count(rc.level_map, rc.current))
        /\ L3Count(rc.level_map, rc.members)
              <= Max(rc.max_l3, L3Count(rc.level_map, rc.current))
        /\ (/\ rc.level_map = ExampleLevelMap /\ rc.max_l3 = 1
            /\ rc.current = {"A"} /\ rc.target = <<"B", "C">>) => rc.members = {"A", "C"}

C5_Witness ==
    /\ rc.pc = "added"
    /\ rc.level_map = ExampleLevelMap
    /\ rc.max_l3 = 1
    /\ rc.current = {"A"}
    /\ rc.target = <<"B", "C">>
    /\ rc.members = {"A", "C"}

FirstTargets(call) == {call.target[i] : i \in {j \in 1..Len(call.target) : j <= call.max_l3}}

\* C6: with cleanup=true and more than maxL3 level-3 memberships after the add
\* phase, the call leaves exactly maxL3 level-3 memberships, removes none of
\* the first maxL3 targets and no membership that is not level 3;
\* current {A, B, D}, maxL3=2, target [B, A] removes D and keeps A and B
C6_Cleanup ==
    LET before == rc.current \cup Range(rc.allowed)
    IN  (rc.pc = "returned" /\ rc.cleanup
         /\ L3Count(rc.level_map, before) > rc.max_l3) =>
            /\ L3Count(rc.level_map, rc.members) = rc.max_l3
            /\ rc.members = before \ rc.removed
            /\ rc.removed \cap FirstTargets(rc) = {}
            /\ \A cid \in rc.removed : IsLevel3(rc.level_map, cid)
            /\ (/\ rc.level_map = ExampleLevelMap /\ rc.max_l3 = 2
                /\ rc.current = {"A", "B", "D"} /\ rc.target = <<"B", "A">>)
                   => (rc.removed = {"D"} /\ rc.members = {"A", "B"})

C6_Witness ==
    /\ rc.pc = "returned"
    /\ rc.cleanup
    /\ rc.level_map = ExampleLevelMap
    /\ rc.max_l3 = 2
    /\ rc.current = {"A", "B", "D"}
    /\ rc.target = <<"B", "A">>
    /\ rc.removed = {"D"}

\* C7: a pending entry with an empty title that a drainQueue call selected is
\* stored, once the call has returned, with status 'error' and error_message
\* "Product has no title"; and the classifier is never invoked for an entry
\* with an empty title
C7_NoTitleRecorded ==
    /\ [][\A d \in Drains :
            (drain[d].pc = "loop" /\ drain'[d].pc = "idle") =>
                \A k \in 1..Len(drain[d].pending_products) :
                    LET pos == drain[d].pending_products[k]
                    IN  queue[pos].title = "" =>
                            /\ queue'[pos].status = "error"
                            /\ queue'[pos].error_message = "Product has no title"]_vars
    /\ [](~obs.untitled_classified)

\* C8: the work queue holds at most one entry per external product id
C8_OneEntryPerProduct ==
    \A i, j \in 1..Len(queue) : i # j => queue[i].product_id # queue[j].product_id

\* two scans overlap: one is about to commit a product the other has stored
C8_Witness ==
    \E s \in Scans :
        /\ scan[s].pc = "commit"
        /\ \E i \in 1..Len(scan[s].added) : scan[s].added[i] \in QueuedIds(queue)
        /\ \E o \in Scans \ {s} : scan[o].pc = "next"

\* C9: a classification that fails (empty hierarchy, exhausted rate-limit or
\* timeout retries, another exception) returns a result with no assignments,
\* no suggestion and an error text, and the drain stores the entry with status
\* 'error', that text and retry_count one higher
C9_FailureRecorded ==
    [][\A d \in Drains :
          (drain[d].pc = "commit" /\ drain'[d].pc = "loop" /\ obs.failure[d] # "") =>
              LET pos == drain[d].pending_products[drain[d].k]
                  result == drain[d].result
              IN  /\ result.assigned_collections = <<>>
                  /\ ~result.new_collection_suggestion.present
                  /\ result.error # ""
                  /\ queue'[pos].status = "error"
                  /\ queue'[pos].error_message = result.error
                  /\ queue'[pos].retry_count = queue[pos].retry_count + 1
                  /\ suggestions' = suggestions]_vars

C9_Witness ==
    \E i \in 1..Len(queue), j \in 1..Len(queue) :
        /\ queue[i].status = "error"
        /\ queue[i].error_message = "OpenAI rate limit exceeded after retries"
        /\ queue[i].retry_count = 1
        /\ queue[j].status = "error"
        /\ queue[j].error_message = "No collections found in hierarchy"
        /\ queue[j].retry_count = 1

\* C10: one classify call makes at most 1 + 3 requests: rate-limit and timeout
\* signals share the attempt counter, and when the 4th request fails with one
\* of them too the call returns the error result of that signal
C10_BoundedRetries ==
    cl.pc = "done" =>
        LET n == LeadingTransient(cl.responses)
        IN  /\ cl.out.requests <= 1 + 3
            /\ cl.hier # {} => cl.out.requests = Min(n + 1, 1 + 3)
            /\ (cl.hier # {} /\ n >= 1 + 3) =>
                  /\ cl.out.result.assigned_collections = <<>>
                  /\ cl.out.result.error =
                        IF cl.responses[1 + 3].kind = "RateLimitError"
                        THEN "OpenAI rate limit exceeded after retries"
                        ELSE "OpenAI API timeout after retries"

C10_Witness ==
    /\ cl.pc = "done"
    /\ cl.hier # {}
    /\ cl.responses[1].kind = "RateLimitError"
    /\ cl.responses[2].kind = "APITimeoutError"
    /\ cl.responses[3].kind = "RateLimitError"
    /\ cl.responses[4].kind = "APITimeoutError"
    /\ cl.out.requests = 4
    /\ cl.out.result.error = "OpenAI API timeout after retries"

\* C11: the value process_queue returns equals the number of entries the call
\* stored with status 'processed', and an entry whose handling raised (at its
\* commit included) is stored in error and is not counted
C11_ReturnCountsProcessed ==
    [][\A d \in Drains :
          (drain[d].pc \in {"loop", "raised"} /\ drain'[d].pc = "idle") =>
              /\ drain[d].processed_count = obs.stored[d]
              /\ drain[d].pc = "raised" =>
                    queue'[drain[d].pending_products[drain[d].k]].status = "error"]_vars

\* C12: the change made to a selected entry (the empty-title case included) is
\* committed before the next entry is handled; a failed commit leaves the
\* stored rows of the other entries as they were and the call still handles
\* every entry it selected
C12_FailureIsolation ==
    /\ [](\A d \in Drains : drain[d].pc = "loop" => drain[d].dirty = <<>>)
    /\ [][\A d \in Drains :
            (drain[d].pc = "commit" /\ drain'[d].pc \in {"loop", "raised"}) =>
                \A i \in 1..Len(queue) :
                    (i # drain[d].pending_products[drain[d].k]
                     /\ \A j \in 1..Len(drain[d].dirty) : drain[d].dirty[j].pos # i)
                        => queue'[i] = queue[i]]_vars
    /\ [][\A d \in Drains :
            (drain[d].pc # "idle" /\ drain'[d].pc = "idle") =>
                drain[d].k > Len(drain[d].pending_products)]_vars

\* C13: when a catalog write fails during an apply run, the writes made stay,
\* the entry of the failing product is stored in error with a message and
\* applied = false, and the products applied in the same run have applied =
\* true stored: every entry whose product received a catalog write in a step
\* is afterwards stored as applied or as in error
C13_ApplyFailureRecorded ==
    [][\A i \in 1..Len(queue) :
          memberships'[queue[i].product_id] # memberships[queue[i].product_id] =>
              /\ memberships[queue[i].product_id] \subseteq memberships'[queue[i].product_id]
              /\ \/ queue'[i].applied
                 \/ /\ queue'[i].status = "error"
                    /\ queue'[i].error_message # ""
                    /\ ~queue'[i].applied]_vars

\* C14: when the model's body is not parseable JSON, classify_product returns
\* a result with no assignments, no suggestion and no error and makes no
\* further request; the drain stores the entry as processed with an empty
\* assignment list and the retry_count it had
C14_MalformedDegrades ==
    [][\A d \in Drains :
          (drain[d].pc = "commit" /\ drain'[d].pc = "loop" /\ obs.malformed[d].seen) =>
              LET pos == drain[d].pending_products[drain[d].k]
                  result == drain[d].result
              IN  /\ result.assigned_collections = <<>>
                  /\ ~result.new_collection_suggestion.present
                  /\ result.error = ""
                  /\ obs.malformed[d].retries = 0
                  /\ queue'[pos].status = "processed"
                  /\ queue'[pos].assigned_collections = <<>>
                  /\ queue'[pos].retry_count = queue[pos].retry_count
                  /\ suggestions' = suggestions]_vars

C14_Witness ==
    \E i \in 1..Len(queue) :
        /\ queue[i].title # ""
        /\ queue[i].status = "processed"
        /\ queue[i].processed
        /\ queue[i].assigned_collections = <<>>
        /\ queue[i].retry_count = 0
        /\ queue[i].error_message = ""

\* the number of parts the separator splits a title into
RECURSIVE NumParts(_)
NumParts(s) ==
    LET at(i) == i + 2 <= Len(s) /\ s[i] = " " /\ s[i + 1] = ">" /\ s[i + 2] = " "
    IN  IF \E i \in 1..Len(s) : at(i)
        THEN LET i == CHOOSE i \in 1..Len(s) : at(i) /\ \A j \in 1..(i - 1) : ~at(j)
             IN  1 + NumParts(SubSeq(s, i + 3, Len(s)))
        ELSE 1

\* C15: every stored node has as level the number of separator-split parts of
\* its title capped at 3, in {1,2,3}, and as full_path its first `level` parts
\* joined by the separator; "Men", "Men > Shoes", "Men > Shoes > Running" give
\* levels 1, 2, 3 with the title as path, and a title of four parts gives
\* level 3 with a path of its first three parts
C15_LevelFromTitle ==
    \A row \in hierarchy :
        /\ row.level = Min(NumParts(row.title), 3)
        /\ row.level \in {1, 2, 3}
        /\ row.full_path = join([i \in 1..row.level |-> strip(split(row.title)[i])])
        /\ row.title = <<"Men">> => (row.level = 1 /\ row.full_path = row.title)
        /\ row.title = <<"Men", " ", ">", " ", "Shoes">> =>
              (row.level = 2 /\ row.full_path = row.title)
        /\ row.title = <<"Men", " ", ">", " ", "Shoes", " ", ">", " ", "Running">> =>
              (row.level = 3 /\ row.full_path = row.title)
        /\ row.title = FourParts =>
              /\ row.level = 3
              /\ row.full_path = <<"Men", " ", ">", " ", "Shoes", " ", ">", " ", "Running">>

C15_Witness ==
    /\ sync.pc = "idle"
    /\ \E a, b, c, d \in hierarchy :
          /\ a.title = <<"Men">> /\ a.level = 1
          /\ b.title = <<"Men", " ", ">", " ", "Shoes">> /\ b.level = 2
          /\ c.level = 3 /\ c.full_path = c.title
          /\ d.title = FourParts /\ d.level = 3 /\ d.full_path = c.title

\* C16: classify_product takes its candidates from exactly one level: all the
\* level-3 nodes if there are any, otherwise all the level-2 nodes if there
\* are any, otherwise all the level-1 nodes; with no node at any level it
\* makes no request and returns the no-hierarchy error result
C16_DeepestLevelCandidates ==
    cl.pc = "done" =>
        LET ids(l) == {c.collection_id : c \in {x \in cl.hier : x.level = l}}
        IN  /\ ids(3) # {} => cl.out.candidates = ids(3)
            /\ (ids(3) = {} /\ ids(2) # {}) => cl.out.candidates = ids(2)
            /\ (ids(3) = {} /\ ids(2) = {}) => cl.out.candidates = ids(1)
            /\ cl.hier # {} => cl.out.requests >= 1
            /\ cl.hier = {} =>
                  /\ cl.out.requests = 0
                  /\ cl.out.result = ErrorResult("No collections found in hierarchy")

C16_Witness ==
    /\ cl.pc = "done"
    /\ {c.level : c \in cl.hier} = {1, 2}
    /\ cl.out.candidates = {"D"}
    /\ cl.out.requests = 1

\* C17: every category id an apply run hands to the reconciler for a product
\* (seen as the memberships the run adds) belongs to an assignment of that
\* product's entry with confidence strictly above 0.8, the entry being stored
\* as processed and not applied; an entry with no such assignment causes no
\* catalog write and is not marked applied
C17_OnlyConfidentApplied ==
    [][/\ \A i \in 1..Len(queue) :
            LET pid == queue[i].product_id
                a == queue[i].assigned_collections
                accepted == {a[k].id : k \in {n \in 1..Len(a) : a[n].confidence > 80}}
                added == memberships'[pid] \ memberships[pid]
            IN  /\ added \subseteq accepted
                /\ added # {} => (queue[i].status = "processed" /\ ~queue[i].applied)
                /\ accepted = {} => (added = {} /\ queue'[i].applied = queue[i].applied)
                /\ (queue'[i].applied /\ ~queue[i].applied) =>
                      (queue[i].status = "processed" /\ accepted # {})
       /\ \A p \in Products \ QueuedIds(queue) : memberships'[p] = memberships[p]]_vars

C17_Witness ==
    \E i \in 1..Len(queue) :
        /\ queue[i].status = "processed"
        /\ queue[i].applied
        /\ queue[i].assigned_collections = <<Assigned("A", 90), Assigned("D", 80)>>
        /\ memberships[queue[i].product_id] = {"A"}
        /\ \E j \in 1..Len(queue) :
              /\ queue[j].assigned_collections = <<Assigned("D", 80)>>
              /\ ~queue[j].applied
              /\ memberships[queue[j].product_id] = {}

\* C18: the assigned-categories list stored on a processed queue entry holds
\* between zero and two categories, whatever the model answered
C18_AtMostTwoAssigned ==
    \A i \in 1..Len(queue) :
        queue[i].status = "processed" => Len(queue[i].assigned_collections) <= 2

\* C19: when the drain stores an entry as processed and the result carried a
\* suggestion with a non-empty name N, then after that commit the ledger has a
\* record named N whose product_ids include the entry's product id (the drain
\* creating the record when the classifier's merge left none)
C19_SuggestionAttached ==
    [][\A d \in Drains :
          (/\ drain[d].pc = "commit" /\ drain'[d].pc = "loop"
           /\ drain[d].result.error = ""
           /\ drain[d].result.new_collection_suggestion.present
           /\ drain[d].result.new_collection_suggestion.suggested_name # "") =>
              LET pos == drain[d].pending_products[drain[d].k]
                  N == drain[d].result.new_collection_suggestion.suggested_name
              IN  queue'[pos].status = "processed" =>
                      /\ suggestions'[N].exists
                      /\ queue[pos].product_id \in Range(suggestions'[N].product_ids)]_vars

\* C20: the product_ids of a suggestion record only grow: an id stored in a
\* record is in that record in every later state, also when two overlapping
\* drains each read the record and attach different ids to the same name
C20_ContributorsAppendOnly ==
    [][\A n \in Names :
          Range(suggestions[n].product_ids) \subseteq Range(suggestions'[n].product_ids)]_vars

\* C21: the rebuild is not atomic to readers: between the commit of the
\* deletion and the commit of the inserts the table is empty although the
\* storefront has collections; a classification made then returns the
\* no-hierarchy error result and the drain stores the entry in error with
\* retry_count one higher; after a failed insert phase the table is empty and
\* only the insert commit of a later sync fills it
C21_RebuildNotAtomic ==
    /\ [](sync.pc = "deleted" => (hierarchy = {} /\ sync.all_collections # <<>>))
    /\ [][\A d \in Drains :
            (drain[d].pc = "loop" /\ drain'[d].pc = "commit" /\ hierarchy = {}) =>
                drain'[d].result = ErrorResult("No collections found in hierarchy")]_vars
    /\ [][\A d \in Drains :
            (/\ drain[d].pc = "commit" /\ drain'[d].pc = "loop"
             /\ drain[d].result = ErrorResult("No collections found in hierarchy")) =>
                LET pos == drain[d].pending_products[drain[d].k]
                IN  /\ queue'[pos].status = "error"
                    /\ queue'[pos].error_message = "No collections found in hierarchy"
                    /\ queue'[pos].retry_count = queue[pos].retry_count + 1]_vars
    /\ [][(sync.pc = "deleted" /\ sync'.pc = "idle") =>
            hierarchy' \in {{}, HierarchyRows}]_vars
    /\ [][(hierarchy = {} /\ hierarchy' # {}) =>
            (sync.pc = "deleted" /\ sync'.pc = "idle")]_vars

\* an entry failed for want of a hierarchy during a rebuild of the synced one
C21_Witness ==
    /\ sync.pc = "deleted"
    /\ hierarchy = {}
    /\ \E i \in 1..Len(queue) :
          /\ queue[i].status = "error"
          /\ queue[i].error_message = "No collections found in hierarchy"
          /\ queue[i].retry_count = 1

\* C22: a manual retry sets every entry in error to pending with retry_count
\* 0 and no error message and changes nothing on the pending and processed
\* entries; and no step of the pipeline (scan, drain, apply, reset) removes a
\* queue entry
C22_ResetFrame ==
    /\ [][(\E i \in 1..Len(queue) :
               queue[i].status = "error" /\ queue'[i].status = "pending") =>
            /\ Len(queue') = Len(queue)
            /\ \A i \in 1..Len(queue) :
                  IF queue[i].status = "error"
                  THEN /\ queue'[i].status = "pending"
                       /\ queue'[i].retry_count = 0
                       /\ queue'[i].error_message = ""
                       /\ queue'[i].product_id = queue[i].product_id
                       /\ queue'[i].title = queue[i].title
                       /\ queue'[i].assigned_collections = queue[i].assigned_collections
                       /\ queue'[i].applied = queue[i].applied
                  ELSE queue'[i] = queue[i]]_vars
    /\ [][/\ Len(queue') >= Len(queue)
          /\ \A i \in 1..Len(queue) : queue'[i].product_id = queue[i].product_id]_vars

\* an entry that failed once is pending again with its counter at 0, beside
\* a processed entry
C22_Witness ==
    \E i, j \in 1..Len(queue) :
        /\ queue[i].status = "pending"
        /\ queue[i].retry_count = 0
        /\ queue[i].error_message = ""
        /\ obs.streak[queue[i].product_id] = 1
        /\ queue[j].status = "processed"

\* a call selects at most batch_size entries, each pending with retry_count
\* below 3 at that moment, and its loop position only advances: one
\* classification per position, then the commit, then the next position
DrainBatchDiscipline ==
    /\ [](\A d \in Drains :
            /\ Len(drain[d].pending_products) <= drain[d].batch_size
            /\ drain[d].k <= Len(drain[d].pending_products) + 1
            /\ drain[d].pc = "commit" => drain[d].k <= Len(drain[d].pending_products))
    /\ [][\A d \in Drains :
            (drain[d].pc = "idle" /\ drain'[d].pc # "idle") =>
                LET sel == drain'[d].pending_products
                IN  /\ \A a \in 1..Len(sel) :
                          /\ queue[sel[a]].status = "pending"
                          /\ queue[sel[a]].retry_count < 3
                    /\ \A a, b \in 1..Len(sel) : a # b => sel[a] # sel[b]]_vars
    /\ [][\A d \in Drains :
            (drain[d].pc # "idle" /\ drain'[d].pc # "idle") =>
                /\ drain'[d].pending_products = drain[d].pending_products
                /\ drain'[d].batch_size = drain[d].batch_size
                /\ drain'[d].k \in {drain[d].k, drain[d].k + 1}
                /\ (drain[d].pc = "loop" /\ drain'[d].pc = "commit") =>
                      drain'[d].k = drain[d].k
                /\ (drain[d].pc = "commit" /\ drain'[d].pc = "loop") =>
                      drain'[d].k = drain[d].k + 1]_vars

C24_DrainProgress ==
    \A p \in Products :
        (\E i \in 1..Len(queue) :
            /\ queue[i].product_id = p
            /\ queue[i].status = "pending"
            /\ queue[i].retry_count < 3)
        ~> (\A i \in 1..Len(queue) :
                queue[i].product_id = p => queue[i].status # "pending")

\* C25: with apply_assignments requested again and again and every write
\* succeeding, every processed entry with an assignment of confidence above
\* 0.8 is eventually marked applied
C25_ApplyProgress ==
    \A i \in 1..(ApplyLimit + MaxWaiting) :
        (/\ i <= Len(queue)
         /\ queue[i].status = "processed"
         /\ collection_ids(queue[i]) # <<>>)
        ~> (i <= Len(queue) /\ queue[i].applied)

\* C26: an entry stored as 'processed' is not classified again by any drain
\* invocation, and no drain step changes its status, assigned categories,
\* processed mark or retry counter
C26_ProcessedIsFinal ==
    /\ [][\A d \in Drains :
            (drain[d].pc = "loop" /\ drain'[d].pc = "commit") =>
                queue[drain[d].pending_products[drain[d].k]].status # "processed"]_vars
    /\ [][\A i \in 1..Len(queue) :
            queue[i].status = "processed" =>
                /\ queue'[i].status = "processed"
                /\ queue'[i].assigned_collections = queue[i].assigned_collections
                /\ queue'[i].processed = queue[i].processed
                /\ queue'[i].retry_count = queue[i].retry_count]_vars

\* C27: the retry counter of every queue entry is within 0..3
C27_RetryCountBounded ==
    \A i \in 1..Len(queue) : queue[i].retry_count \in 0..3

\* C28: a scan only appends entries: every entry the queue holds keeps its
\* product id, title, description, status, retry counter, assignments and
\* applied flag, and every appended entry is for a product id the queue did
\* not hold and is pending with retry_count 0 and applied false
C28_ScanOnlyCreates ==
    [][/\ Len(queue') >= Len(queue)
       /\ \A i \in 1..Len(queue) :
             /\ queue'[i].product_id = queue[i].product_id
             /\ queue'[i].title = queue[i].title
             /\ queue'[i].description = queue[i].description
             /\ queue'[i].status = queue[i].status
             /\ queue'[i].retry_count = queue[i].retry_count
             /\ queue'[i].assigned_collections = queue[i].assigned_collections
             /\ queue'[i].applied = queue[i].applied
       /\ \A j \in (Len(queue) + 1)..Len(queue') :
             /\ queue'[j].product_id \notin QueuedIds(queue)
             /\ queue'[j].status = "pending"
             /\ queue'[j].retry_count = 0
             /\ queue'[j].applied = FALSE]_vars

\* a scan has stored a page and goes on, the queue holding an applied entry
\* with the title of before an edit, and behind it a new entry
C28_Witness ==
    \E s \in Scans :
        /\ scan[s].pc = "next"
        /\ \E i, j \in 1..Len(queue) :
              /\ i < j
              /\ queue[i].applied /\ queue[i].title = "Old title"
              /\ queue[j] = ProductQueue(queue[j].product_id, ProductTitle[queue[j].product_id])

=========================================================================
